---- MODULE Spec2Model ----
(***************************************************************************)
(* Model of domain-stats.py: the stat extraction pipeline (clean_val,      *)
(* flatten, clean_measurement, get_stats) and the poll loop that drives it *)
(* (write_stats and the __main__ loop).                                    *)
(*                                                                         *)
(* Python strings are modelled as sequences of one-character strings, so   *)
(* that replace, startswith, split, join, the float parser and the regular *)
(* expression act on characters as the code does.  A float is a pair       *)
(* <<m, e>> standing for m / 10^e, normalised (no trailing zero digit in   *)
(* the fraction).  A JSON value is a record [t, n, s, items]: t is the     *)
(* type, n the number, s the characters, items the (key, value) pairs of a *)
(* mapping in its iteration order.                                         *)
(***************************************************************************)
EXTENDS Integers, Sequences, FiniteSets, TLC

\* ------------------------------------------------------------------ text

Digits == {"0", "1", "2", "3", "4", "5", "6", "7", "8", "9"}

Letters ==
    {"a", "b", "c", "d", "e", "f", "g", "h", "i", "j", "k", "l", "m",
     "n", "o", "p", "q", "r", "s", "t", "u", "v", "w", "x", "y", "z",
     "A", "B", "C", "D", "E", "F", "G", "H", "I", "J", "K", "L", "M",
     "N", "O", "P", "Q", "R", "S", "T", "U", "V", "W", "X", "Y", "Z"}

\* \w of the re module
WordChars == Letters \cup Digits \cup {"_"}

\* the characters str.strip() and float() treat as white space
Whitespace == {" ", "\t", "\n", "\r"}

DigitVal(c) ==
    CASE c = "0" -> 0 [] c = "1" -> 1 [] c = "2" -> 2 [] c = "3" -> 3
      [] c = "4" -> 4 [] c = "5" -> 5 [] c = "6" -> 6 [] c = "7" -> 7
      [] c = "8" -> 8 [] c = "9" -> 9

AllIn(s, set) == \A i \in DOMAIN s : s[i] \in set

\* a replace that stops after the first occurrence (a faulty variant)
replace_first(s, old, new) ==
    [i \in DOMAIN s |->
        IF s[i] = old /\ (\A h \in 1..(i - 1) : s[h] # old) THEN new ELSE s[i]]

\* str.replace(old, new) for one-character old and new: every occurrence
replace(s, old, new) == [i \in DOMAIN s |-> IF s[i] = old THEN new ELSE s[i]]

\* str.startswith(prefix)
startswith(s, prefix) ==
    /\ Len(s) >= Len(prefix)
    /\ SubSeq(s, 1, Len(prefix)) = prefix

\* str.split(sep) for a one-character sep: '' splits to ['']
RECURSIVE split(_, _)
split(s, sep) ==
    IF \A i \in DOMAIN s : s[i] # sep
    THEN <<s>>
    ELSE LET i == CHOOSE j \in DOMAIN s :
                      /\ s[j] = sep
                      /\ \A h \in 1..(j - 1) : s[h] # sep
         IN  <<SubSeq(s, 1, i - 1)>> \o split(SubSeq(s, i + 1, Len(s)), sep)

\* sep.join(parts)
RECURSIVE join(_, _)
join(parts, sep) ==
    IF parts = <<>> THEN <<>>
    ELSE IF Len(parts) = 1 THEN parts[1]
    ELSE parts[1] \o <<sep>> \o join(Tail(parts), sep)

\* the list left by list.pop(i), i counted from 0 as in Python
popped(list, i) ==
    SubSeq(list, 1, i) \o SubSeq(list, i + 2, Len(list))

\* ---------------------------------------------------- clean_measurement

z_ == <<"z", "_">>
z_avatars == <<"z", "_", "a", "v", "a", "t", "a", "r", "s">>
z_listeners == <<"z", "_", "l", "i", "s", "t", "e", "n", "e", "r", "s">>

NoTags == [x \in {} |-> <<>>]

\* what a call of clean_measurement does: the exception it raises ("" when
\* it returns), and the (tags, measurement) pair it returns
Raised(exc) == [raised |-> exc, tags |-> NoTags, measurement |-> <<>>]
Returned(tags, measurement) ==
    [raised |-> "", tags |-> tags, measurement |-> measurement]

clean_measurement(measurement) ==
    LET m == replace(measurement, " ", "-")
    IN  IF ~startswith(m, z_)
        THEN Returned(NoTags, m)
        ELSE LET val == split(m, ".")
             IN  IF val[1] \notin {z_avatars, z_listeners}
                 THEN Returned(NoTags, m)
                 ELSE IF Len(val) < 2
                      THEN Raised("IndexError")
                      ELSE Returned([x \in {"uuid"} |-> val[2]],
                                    join(popped(val, 1), "."))

\* -------------------------------------------------------------- clean_val

\* str.strip() as float() applies it to its argument
RECURSIVE lstrip(_)
lstrip(s) ==
    IF s # <<>> /\ s[1] \in Whitespace THEN lstrip(Tail(s)) ELSE s

RECURSIVE rstrip(_)
rstrip(s) ==
    IF s # <<>> /\ s[Len(s)] \in Whitespace
    THEN rstrip(SubSeq(s, 1, Len(s) - 1))
    ELSE s

strip(s) == lstrip(rstrip(s))

\* int() of a string of decimal digits ('' counts 0, for an empty integer
\* or fraction part)
RECURSIVE DigitsVal(_)
DigitsVal(s) ==
    IF s = <<>> THEN 0
    ELSE 10 * DigitsVal(SubSeq(s, 1, Len(s) - 1)) + DigitVal(s[Len(s)])

\* the float m / 10^e in normal form
RECURSIVE Float(_, _)
Float(m, e) ==
    IF e > 0 /\ m % 10 = 0 THEN Float(m \div 10, e - 1) ELSE <<m, e>>

\* The decimal literals float() accepts: white space stripped, an optional
\* sign, digits with at most one point and a digit on one side of it at
\* least.  (Exponents, inf and nan need letters the inputs do not draw.)
Unsigned(s) ==
    IF s # <<>> /\ s[1] \in {"+", "-"} THEN Tail(s) ELSE s

IntPart(u) == split(u, ".")[1]
FracPart(u) == IF Len(split(u, ".")) = 2 THEN split(u, ".")[2] ELSE <<>>

IsFloatLiteral(str) ==
    LET u == Unsigned(strip(str))
    IN  /\ Len(split(u, ".")) <= 2
        /\ AllIn(IntPart(u), Digits)
        /\ AllIn(FracPart(u), Digits)
        /\ Len(IntPart(u)) + Len(FracPart(u)) >= 1

ParseFloat(str) ==
    LET t == strip(str)
        u == Unsigned(t)
        mag == DigitsVal(IntPart(u) \o FracPart(u))
    IN  Float(IF t[1] = "-" THEN 0 - mag ELSE mag, Len(FracPart(u)))

\* The text re.match leaves in group 1 for a pattern ^(\d+)<sep>\w+$, where
\* <sep> is one character of seps (or, with many, one or more of them);
\* <<>> when the pattern does not match.  $ also matches before one
\* trailing newline.
MatchGroup1(s, seps, many) ==
    LET body == IF s # <<>> /\ s[Len(s)] = "\n"
                THEN SubSeq(s, 1, Len(s) - 1) ELSE s
        n == Len(body)
        Matches(i, j) ==
            /\ AllIn(SubSeq(body, 1, i), Digits)
            /\ AllIn(SubSeq(body, i + 1, j), seps)
            /\ AllIn(SubSeq(body, j + 1, n), WordChars)
            /\ many \/ j = i + 1
        ends == {i \in 1..(n - 2) : \E j \in (i + 1)..(n - 1) : Matches(i, j)}
    IN  IF ends = {} THEN <<>>
        ELSE SubSeq(body, 1, CHOOSE i \in ends : TRUE)

\* re.match(r'^(\d+) \w+$', val)
re_match(val) == MatchGroup1(val, {" "}, FALSE)

\* The outcome of a call: the exception raised ("" when the call returns)
\* and the float returned.
Raises(exc) == [raised |-> exc, value |-> <<0, 0>>]
Returns(value) == [raised |-> "", value |-> value]

\* JSON values as json.loads builds them
Num(m, e) == [t |-> "num", n |-> Float(m, e), s |-> <<>>, items |-> <<>>]
Bool(b) ==
    [t |-> "bool", n |-> IF b THEN <<1, 0>> ELSE <<0, 0>>, s |-> <<>>,
     items |-> <<>>]
Str(s) == [t |-> "str", n |-> <<0, 0>>, s |-> s, items |-> <<>>]
Null == [t |-> "null", n |-> <<0, 0>>, s |-> <<>>, items |-> <<>>]
List == [t |-> "list", n |-> <<0, 0>>, s |-> <<>>, items |-> <<>>]
Dict(items) == [t |-> "dict", n |-> <<0, 0>>, s |-> <<>>, items |-> items]

\* float(val): a number (a bool is an int in Python) converts, a string is
\* parsed or raises ValueError, anything else raises TypeError
float(val) ==
    CASE val.t \in {"num", "bool"} -> Returns(val.n)
      [] val.t = "str" ->
            IF IsFloatLiteral(val.s) THEN Returns(ParseFloat(val.s))
            ELSE Raises("ValueError")
      [] OTHER -> Raises("TypeError")

\* clean_val with the pattern ^(\d+)\s+\w+$ (a faulty variant)
clean_val_any_whitespace(val) ==
    LET f == float(val)
    IN  IF f.raised # "ValueError" THEN f
        ELSE LET m == MatchGroup1(val.s, Whitespace, TRUE)
             IN  IF m # <<>> THEN float(Str(m)) ELSE f

\* clean_val: float(val), and on ValueError the pattern's group 1 as a float
\* or the ValueError raised again; a TypeError passes through
clean_val(val) ==
    LET f == float(val)
    IN  IF f.raised # "ValueError" THEN f
        ELSE LET m == re_match(val.s)
             IN  IF m # <<>> THEN float(Str(m)) ELSE f

\* ---------------------------------------------------------------- flatten

\* '.'.join((key, k)) if key else k
child_key(key, k) == IF key # <<>> THEN key \o <<".">> \o k ELSE k

\* The pairs the generator flatten(key, val) yields, in the order it
\* yields them.  items_from walks val.items() from index i on.
RECURSIVE flatten(_, _), items_from(_, _, _)
flatten(key, val) ==
    IF val.t = "dict"
    THEN items_from(key, val.items, 1)
    ELSE IF val.t # "null"
         THEN IF clean_val(val).raised \in {"TypeError", "ValueError"}
              THEN <<>>
              ELSE <<<<key, clean_val(val).value>>>>
         ELSE <<>>

items_from(key, items, i) ==
    IF i > Len(items) THEN <<>>
    ELSE flatten(child_key(key, items[i][1]), items[i][2])
             \o items_from(key, items, i + 1)

\* ------------------------------------------------- the program's state

VARIABLES
    pc,        \* where the process stands: a step of the __main__ loop and
               \* of write_stats, "terminated" once an exception has left
               \* the loop, or the call a pure-function check makes
    cycle,     \* number of poll cycles started
    nodes,     \* get_stats: the type -> uuid mapping built from nodes.json
    k,         \* get_stats: index of the node type the for loop is at
    gen,       \* get_stats: what flatten('', d) has still to yield
    stats,     \* the records get_stats has yielded in this cycle
    body,      \* write_stats: the points appended so far in this cycle
    fetched,   \* the paths request() was called with in this cycle
    docs,      \* the node documents request() returned in this cycle
    sink,      \* every client.write_points call: its cycle, batch, outcome
    raised,    \* the exception that ended the process ("" while it runs)
    arg,       \* the argument of a function called on its own
    res        \* the results of the calls made on arg, in order

vars ==
    <<pc, cycle, nodes, k, gen, stats, body, fetched, docs, sink, raised,
      arg, res>>

\* ---------------------------------------------------------------- bounds

MaxCycles == 2

\* longest string handed to clean_val
MaxStrLen == 4

\* most tokens a path handed to clean_measurement is made of
MaxTokens == 4

\* deepest nesting and most keys per mapping of a document handed to flatten
MaxDepth == 2

MaxWidth == 2

\* --------------------------------------------------- the collaborators

\* HIFI_DOMAIN_NAME
domain_name == "hifi"

\* the node types in the other order (a faulty variant)
NodeTypes_reversed == <<"avatar-mixer", "audio-mixer">>

\* for k in ('audio-mixer', 'avatar-mixer')
NodeTypes == <<"audio-mixer", "avatar-mixer">>

\* The node descriptors a domain server may list, and the listings
\* nodes.json may return: any of them present or absent.
Descriptors ==
    {[type |-> "audio-mixer", uuid |-> "uuid-audio"],
     [type |-> "avatar-mixer", uuid |-> "uuid-avatar"],
     [type |-> "asset-server", uuid |-> "uuid-asset"]}

Listings == SUBSET Descriptors

\* {n['type']: n for n in request('nodes.json')['nodes']}
nodes_by_type(listing) ==
    [type \in {n.type : n \in listing} |->
        (CHOOSE n \in listing : n.type = type).uuid]

NoNodes == nodes_by_type({})

\* 'nodes/%s.json' % uuid
node_path(uuid) == <<"nodes/", uuid, ".json">>

\* The status documents a node may return: nested numeric fields, a
\* "number unit" string, an entity-scoped family, a key with a space, null
\* and list leaves, a string that does not coerce, a bare entity root, and
\* the empty mapping.
StatusDocs ==
    {Dict(<< <<<<"a">>, Dict(<< <<<<"b">>, Num(1, 0)>>,
                                <<<<"c">>, Str(<<"2", " ", "u">>)>> >>)>> >>),
     Dict(<< <<z_avatars, Dict(<< <<<<"7">>,
                                   Dict(<< <<<<"n">>, Num(25, 1)>> >>)>> >>)>>,
             <<<<"j", " ", "b">>, Num(3, 0)>> >>),
     Dict(<< <<<<"x">>, Null>>, <<<<"l">>, List>>,
             <<<<"s">>, Str(<<"u">>)>> >>),
     Dict(<< <<<<"m">>, Num(4, 0)>>, <<z_listeners, Num(5, 0)>> >>),
     Dict(<<>>)}

\* {'domain_name': domain_name, 'assignment': k}
fixed_tags(type) ==
    [x \in {"domain_name", "assignment"} |->
        IF x = "domain_name" THEN domain_name ELSE type]

\* tags.update(_tags)
update(tags, _tags) ==
    [x \in DOMAIN tags \cup DOMAIN _tags |->
        IF x \in DOMAIN _tags THEN _tags[x] ELSE tags[x]]

\* the point write_stats builds from a record and its classification
point(measurement, tags, value) ==
    [measurement |-> measurement, tags |-> tags, fields |-> value]

\* ------------------------------------------------------- the poll loop

Init ==
    /\ pc = "loop"
    /\ cycle = 0
    /\ nodes = NoNodes
    /\ k = 0
    /\ gen = <<>>
    /\ stats = <<>>
    /\ body = <<>>
    /\ fetched = <<>>
    /\ docs = <<>>
    /\ sink = <<>>
    /\ raised = ""
    /\ arg = <<>>
    /\ res = <<>>

\* An exception nothing catches: it leaves write_stats and the while loop,
\* which has no handler, and the process ends.
Propagate(exc) ==
    /\ pc' = "terminated"
    /\ raised' = exc

\* while 1: ... write_stats(request, client_kwargs): a new call, new locals
StartCycle ==
    /\ pc = "loop"
    /\ cycle < MaxCycles
    /\ cycle' = cycle + 1
    /\ pc' = "create_database"
    /\ nodes' = NoNodes
    /\ k' = 0
    /\ gen' = <<>>
    /\ stats' = <<>>
    /\ body' = <<>>
    /\ fetched' = <<>>
    /\ docs' = <<>>
    /\ UNCHANGED <<sink, raised, arg, res>>

\* client.create_database(...), outside any try; then the generator is
\* created and body = []
CreateDatabase ==
    /\ pc = "create_database"
    /\ \/ pc' = "nodes.json" /\ UNCHANGED raised
       \/ Propagate("InfluxDBClientError")
    /\ UNCHANGED <<cycle, nodes, k, gen, stats, body, fetched, docs, sink,
                   arg, res>>

\* the generator's first step: request('nodes.json') and the mapping
FetchNodes ==
    /\ pc = "nodes.json"
    /\ fetched' = Append(fetched, <<"nodes.json">>)
    /\ \/ \E listing \in Listings :
              /\ nodes' = nodes_by_type(listing)
              /\ k' = 1
              /\ pc' = "lookup"
              /\ UNCHANGED raised
       \/ Propagate("RequestException") /\ UNCHANGED <<nodes, k>>
    /\ UNCHANGED <<cycle, gen, stats, body, docs, sink, arg, res>>

\* nodes[k] where the listing has no node of type k
MissingNode ==
    /\ pc = "lookup"
    /\ NodeTypes[k] \notin DOMAIN nodes
    /\ Propagate("KeyError")
    /\ UNCHANGED <<cycle, nodes, k, gen, stats, body, fetched, docs, sink,
                   arg, res>>

\* a fetch whose failure is swallowed, so that the cycle goes on to write
\* what it has (a faulty variant)
FetchNode_skip_on_error ==
    /\ pc = "lookup"
    /\ NodeTypes[k] \in DOMAIN nodes
    /\ fetched' = Append(fetched, node_path(nodes[NodeTypes[k]]))
    /\ \/ \E d \in StatusDocs :
              /\ docs' = Append(docs, d)
              /\ gen' = flatten(<<>>, d)
              /\ pc' = "yield"
              /\ UNCHANGED raised
       \/ pc' = "write_points" /\ UNCHANGED <<docs, gen, raised>>
    /\ UNCHANGED <<cycle, nodes, k, stats, body, sink, arg, res>>

\* d = request('nodes/%s.json' % nodes[k]['uuid']); flatten('', d).  A
\* failure of the request is caught nowhere.
FetchNode ==
    /\ pc = "lookup"
    /\ NodeTypes[k] \in DOMAIN nodes
    /\ fetched' = Append(fetched, node_path(nodes[NodeTypes[k]]))
    /\ \/ \E d \in StatusDocs :
              /\ docs' = Append(docs, d)
              /\ gen' = flatten(<<>>, d)
              /\ pc' = "yield"
              /\ UNCHANGED raised
       \/ Propagate("RequestException") /\ UNCHANGED <<docs, gen>>
    /\ UNCHANGED <<cycle, nodes, k, stats, body, sink, arg, res>>

\* get_stats yields the next record; the body of write_stats' for loop
\* classifies it and appends the point
Yield ==
    /\ pc = "yield"
    /\ gen # <<>>
    /\ LET measurement == Head(gen)[1]
           value == Head(gen)[2]
           tags == fixed_tags(NodeTypes[k])
           cleaned == clean_measurement(measurement)
       IN  /\ stats' = Append(stats, <<measurement, value, tags>>)
           /\ IF cleaned.raised # ""
              THEN Propagate(cleaned.raised) /\ UNCHANGED <<body, gen>>
              ELSE /\ body' = Append(body,
                                     point(cleaned.measurement,
                                           update(tags, cleaned.tags),
                                           value))
                   /\ gen' = Tail(gen)
                   /\ UNCHANGED <<pc, raised>>
    /\ UNCHANGED <<cycle, nodes, k, fetched, docs, sink, arg, res>>

\* flatten is exhausted: the for loop of get_stats goes to the next node
\* type, or get_stats returns and the for loop of write_stats ends
Exhausted ==
    /\ pc = "yield"
    /\ gen = <<>>
    /\ IF k < Len(NodeTypes)
       THEN k' = k + 1 /\ pc' = "lookup"
       ELSE k' = k /\ pc' = "write_points"
    /\ UNCHANGED <<cycle, nodes, gen, stats, body, fetched, docs, sink,
                   raised, arg, res>>

\* try: client.write_points(body) except Exception: logged and swallowed
WritePoints ==
    /\ pc = "write_points"
    /\ \E ok \in BOOLEAN :
           sink' = Append(sink, [cycle |-> cycle, points |-> body, ok |-> ok])
    /\ pc' = "sleep"
    /\ UNCHANGED <<cycle, nodes, k, gen, stats, body, fetched, docs, raised,
                   arg, res>>

\* time.sleep(max(sleep_for, 0)), then the loop starts over
Sleep ==
    /\ pc = "sleep"
    /\ pc' = "loop"
    /\ UNCHANGED <<cycle, nodes, k, gen, stats, body, fetched, docs, sink,
                   raised, arg, res>>

Next ==
    \/ StartCycle
    \/ CreateDatabase
    \/ FetchNodes
    \/ MissingNode
    \/ FetchNode
    \/ Yield
    \/ Exhausted
    \/ WritePoints
    \/ Sleep

Spec == Init /\ [][Next]_vars

\* ------------------------------------------- the functions on their own

\* every sequence over set of length at most n
SeqsUpTo(set, n) == UNION {[1..m -> set] : m \in 0..n}

\* the poll loop's variables, at rest while a function is called on its own
LoopAtRest ==
    /\ cycle = 0
    /\ nodes = NoNodes
    /\ k = 0
    /\ gen = <<>>
    /\ stats = <<>>
    /\ body = <<>>
    /\ fetched = <<>>
    /\ docs = <<>>
    /\ sink = <<>>
    /\ raised = ""

LoopVars ==
    <<cycle, nodes, k, gen, stats, body, fetched, docs, sink, raised>>

\* The scalars flatten hands to clean_val (null is filtered before the
\* call): numbers, booleans, lists, and the strings over digits, the
\* point, a sign, a space, a tab and a letter.
CoerceAlphabet == {"5", "0", ".", "-", " ", "\t", "u"}

Scalars ==
    {Str(s) : s \in SeqsUpTo(CoerceAlphabet, MaxStrLen)}
        \cup {Num(3, 0), Num(25, 1), Num(0 - 1, 0), Bool(TRUE), Bool(FALSE),
              List}

InitCoerce ==
    /\ pc = "clean_val"
    /\ arg \in Scalars
    /\ res = <<>>
    /\ LoopAtRest

\* val = clean_val(val)
CallCleanVal ==
    /\ pc = "clean_val"
    /\ res' = <<clean_val(arg)>>
    /\ pc' = "return"
    /\ UNCHANGED <<arg, LoopVars>>

NextCoerce == CallCleanVal

SpecCoerce == InitCoerce /\ [][NextCoerce]_vars

\* The dotted paths handed to clean_measurement: the tokens below in any
\* order, up to MaxTokens of them.
PathTokens ==
    {z_avatars, z_listeners, <<"z", "_", "o">>, <<".">>, <<" ">>, <<"a">>,
     <<"7">>}

RECURSIVE concat(_)
concat(parts) ==
    IF parts = <<>> THEN <<>> ELSE parts[1] \o concat(Tail(parts))

Paths == {concat(parts) : parts \in SeqsUpTo(PathTokens, MaxTokens)}

InitClassify ==
    /\ pc = "clean_measurement"
    /\ arg \in Paths
    /\ res = <<>>
    /\ LoopAtRest

\* _tags, measurement = clean_measurement(measurement)
Classify ==
    /\ pc = "clean_measurement"
    /\ res' = <<clean_measurement(arg)>>
    /\ pc' = "return"
    /\ UNCHANGED <<arg, LoopVars>>

\* clean_measurement called on the path its first call returned
Reclassify ==
    /\ pc = "return"
    /\ Len(res) = 1
    /\ res[1].raised = ""
    /\ res' = Append(res, clean_measurement(res[1].measurement))
    /\ pc' = "reclassified"
    /\ UNCHANGED <<arg, LoopVars>>

NextClassify == Classify \/ Reclassify

SpecClassify == InitClassify /\ [][NextClassify]_vars

\* The documents handed to flatten: a scalar, or a mapping nested up to
\* MaxDepth with up to MaxWidth keys, the empty key among them.
Leaves == {Num(1, 0), Str(<<"2", " ", "u">>), Null, List}

Keys == {<<>>, <<"a">>}

ItemSeqs(values) ==
    {items \in SeqsUpTo(Keys \X values, MaxWidth) :
        \A i, j \in DOMAIN items : items[i][1] = items[j][1] => i = j}

RECURSIVE Values(_)
Values(depth) ==
    IF depth = 0 THEN Leaves
    ELSE Leaves \cup {Dict(items) : items \in ItemSeqs(Values(depth - 1))}

Documents == Values(MaxDepth)

InitFlatten ==
    /\ pc = "flatten"
    /\ arg \in Documents
    /\ res = <<>>
    /\ LoopAtRest

\* for measurement, value in flatten('', d)
CallFlatten ==
    /\ pc = "flatten"
    /\ res' = <<flatten(<<>>, arg)>>
    /\ pc' = "return"
    /\ UNCHANGED <<arg, LoopVars>>

NextFlatten == CallFlatten

SpecFlatten == InitFlatten /\ [][NextFlatten]_vars

\* ------------------------------------------------------------ the claims

IsPrefix(s, full) == Len(s) <= Len(full) /\ s = SubSeq(full, 1, Len(s))

\* no write_points call has been made in the current cycle
NothingWrittenThisCycle == \A i \in DOMAIN sink : sink[i].cycle # cycle

\* C1: no error is ever fatal to the process: whichever step of a cycle
\* fails, the process goes on to its sleep and the next cycle, and never
\* terminates because of the failure.
C1_NoErrorIsFatal == pc # "terminated"

\* C2: when the nodes listing lacks audio-mixer or avatar-mixer, the cycle
\* fails with the missing-node error having produced, classified and
\* written no record at all.
C2_MissingNodeYieldsNoRecord ==
    raised = "KeyError" =>
        /\ stats = <<>>
        /\ body = <<>>
        /\ NothingWrittenThisCycle

\* the records flatten's results for document d make under node type
\* assignment
Tagged(d, assignment) ==
    [i \in 1..Len(flatten(<<>>, d)) |->
        <<flatten(<<>>, d)[i][1], flatten(<<>>, d)[i][2],
          [domain_name |-> "hifi", assignment |-> assignment]>>]

ExpectedStats ==
    IF docs = <<>> THEN <<>>
    ELSE IF Len(docs) = 1 THEN Tagged(docs[1], "audio-mixer")
    ELSE Tagged(docs[1], "audio-mixer") \o Tagged(docs[2], "avatar-mixer")

ExpectedFetches ==
    <<<<"nodes.json">>, node_path(nodes["audio-mixer"]),
      node_path(nodes["avatar-mixer"])>>

\* C3: with both required types listed, the records of a cycle are the
\* flatten results of the audio-mixer document in flatten order, then those
\* of the avatar-mixer document, each tagged with the configured domain and
\* the node type of its document; the fetches are nodes.json, the
\* audio-mixer document, the avatar-mixer document, in that order and no
\* other.  While the cycle runs, records and fetches are prefixes of these.
C3_RecordSequence ==
    {"audio-mixer", "avatar-mixer"} \subseteq DOMAIN nodes =>
        /\ IsPrefix(fetched, ExpectedFetches)
        /\ IsPrefix(stats, ExpectedStats)
        /\ pc \in {"write_points", "sleep"} =>
               /\ Len(docs) = 2
               /\ fetched = ExpectedFetches
               /\ stats = ExpectedStats

C3_Witness ==
    /\ pc = "write_points"
    /\ Len(docs) = 2
    /\ docs[1] # docs[2]
    /\ Len(flatten(<<>>, docs[1])) >= 2
    /\ Len(flatten(<<>>, docs[2])) >= 1
    /\ stats[1][3].assignment = "audio-mixer"
    /\ stats[Len(stats)][3].assignment = "avatar-mixer"

\* The leaves of a document in depth-first order, each with the sequence
\* of keys from the root to it.
RECURSIVE leaves_of(_, _), leaves_from(_, _, _)
leaves_of(keys, val) ==
    IF val.t = "dict" THEN leaves_from(keys, val.items, 1)
    ELSE <<<<keys, val>>>>

leaves_from(keys, items, i) ==
    IF i > Len(items) THEN <<>>
    ELSE leaves_of(Append(keys, items[i][1]), items[i][2])
             \o leaves_from(keys, items, i + 1)

Coercible(leaf) == leaf[2].t # "null" /\ clean_val(leaf[2]).raised = ""

CoercibleLeaves(doc) == SelectSeq(leaves_of(<<>>, doc), Coercible)

\* C4: flatten with an empty starting path yields exactly one pair for each
\* non-null coercible leaf and nothing for the others, in depth-first
\* order; a pair's path is the dot-joined sequence of all keys from the
\* root to its leaf.
C4_FlattenJoinsAllKeys ==
    pc = "return" =>
        res[1] = [i \in 1..Len(CoercibleLeaves(arg)) |->
                     <<join(CoercibleLeaves(arg)[i][1], "."),
                       clean_val(CoercibleLeaves(arg)[i][2]).value>>]

\* ^(\d+)\s+\w+$ and ^(\d+) \w+$ as a reader of the pattern matches them:
\* digits, white space (one or more characters, or exactly one space), a
\* word to the end
MatchesUnit(s, anyWhitespace) ==
    \E i \in 1..Len(s) : \E j \in (i + 1)..(Len(s) - 1) :
        /\ AllIn(SubSeq(s, 1, i), Digits)
        /\ IF anyWhitespace
           THEN AllIn(SubSeq(s, i + 1, j), Whitespace)
           ELSE j = i + 1 /\ s[j] = " "
        /\ AllIn(SubSeq(s, j + 1, Len(s)), WordChars)

\* the integer a string starts with, as a float
NumericPrefix(s) ==
    LET i == CHOOSE h \in 1..Len(s) :
                 /\ AllIn(SubSeq(s, 1, h), Digits)
                 /\ s[h + 1] \notin Digits
    IN  <<DigitsVal(SubSeq(s, 1, i)), 0>>

\* what the claim says coerce does with val, for either pattern
CoerceAsClaimed(val, result, anyWhitespace) ==
    CASE val.t \in {"num", "bool"} -> result = Returns(val.n)
      [] val.t = "str" /\ IsFloatLiteral(val.s) ->
            result = Returns(ParseFloat(val.s))
      [] val.t = "str" /\ ~IsFloatLiteral(val.s)
                       /\ MatchesUnit(val.s, anyWhitespace) ->
            result = Returns(NumericPrefix(val.s))
      [] OTHER -> result.raised \in {"ValueError", "TypeError"}

C6_ClassifyIsTotal ==
    \A i \in DOMAIN res : res[i].raised = ""

\* C7 as stated: classify applied to the path classify returned gives that
\* same path and no extra tags, for every path.
C7_ClassifyIdempotent ==
    pc = "reclassified" => res[2] = Returned(NoTags, res[1].measurement)

\* C7 as amended: classify is idempotent on the paths it passes through
\* untagged, and only on them: when the first call returns no tags the
\* second returns the same path and no tags; when the first call returns a
\* uuid tag the second is not a no-op (it strips a further segment, or
\* fails).
C7_IdempotentOnPassThrough ==
    pc = "reclassified" =>
        IF res[1].tags = NoTags
        THEN res[2] = Returned(NoTags, res[1].measurement)
        ELSE res[2] # Returned(NoTags, res[1].measurement)

C7_Witness ==
    /\ pc = "reclassified"
    /\ res[1].tags = NoTags
    /\ startswith(arg, z_)
    /\ res[1].measurement # arg
    /\ res[2] = res[1]

\* C8: classify replaces every space with a hyphen; a text that does not
\* start with z_, or whose first segment is neither z_avatars nor
\* z_listeners, is returned with no tags; otherwise the segment at index 1
\* is returned as tag uuid and the other segments, in their order and
\* rejoined with dots, as the path.
C8_ClassifyResult ==
    pc = "return" =>
        LET text == replace(arg, " ", "-")
            segments == split(text, ".")
        IN  IF ~startswith(text, z_)
                   \/ segments[1] \notin {z_avatars, z_listeners}
            THEN res[1] = Returned(NoTags, text)
            ELSE /\ res[1].raised = ""
                 /\ Len(segments) >= 2 =>
                        /\ res[1].tags = [uuid |-> segments[2]]
                        /\ res[1].measurement =
                               join(<<segments[1]>>
                                        \o SubSeq(segments, 3, Len(segments)),
                                    ".")

\* C9: no pair flatten yields from an empty starting path has the empty
\* path, and the number of dot-separated segments of a yielded path is the
\* nesting depth of its leaf.
C9_PathsAreNonEmpty ==
    pc = "return" =>
        /\ Len(res[1]) = Len(CoercibleLeaves(arg))
        /\ \A i \in DOMAIN res[1] :
               /\ res[1][i][1] # <<>>
               /\ i <= Len(CoercibleLeaves(arg)) =>
                      Len(split(res[1][i][1], "."))
                          = Len(CoercibleLeaves(arg)[i][1])

\* the point write_stats makes of a record
Classified(record) ==
    point(clean_measurement(record[1]).measurement,
          update(record[3], clean_measurement(record[1]).tags),
          record[2])

\* C10: the sink receives the points of a cycle all or nothing.  A
\* write_points call is made only once both documents are fetched and every
\* record is classified, at most once in a cycle, with exactly the points
\* of that cycle's records (none of an earlier cycle's failed write); a
\* cycle that an exception ended has written nothing.
C10_SinkAllOrNothing ==
    /\ [][sink' # sink =>
              /\ pc = "write_points"
              /\ gen = <<>>
              /\ Len(docs) = 2
              /\ stats = ExpectedStats
              /\ body = [i \in 1..Len(stats) |-> Classified(stats[i])]
              /\ NothingWrittenThisCycle
              /\ \E ok \in BOOLEAN :
                     sink' = Append(sink, [cycle |-> cycle, points |-> body,
                                           ok |-> ok])]_vars
    /\ [](raised # "" => NothingWrittenThisCycle)

C10_Witness ==
    /\ Len(sink) = 2
    /\ ~sink[1].ok
    /\ sink[1].points # <<>>
    /\ sink[2].ok
    /\ Len(sink[2].points) >= 2
    /\ sink[2].points # sink[1].points

====
